---- MODULE Spec2Model ----
(***************************************************************************)
(* A model of src/src/lsolver.cpp: the queue-simulation Laplacian solver   *)
(* (Lsolver::solve, computeEtaAtStationarity, estimateEta, AliasMethod,    *)
(* computeCanonicalSolution and the xorshf96 generator).                   *)
(*                                                                         *)
(* Numbers.  A double that the code computes from its inputs is modelled   *)
(* by the exact rational it rounds: a pair <<num, den>> with den > 0, or a *)
(* vector of numerators over one common denominator.  IEEE-754 outcomes    *)
(* that are not numbers (infinities, NaN, the underflow of beta to 0) are  *)
(* modelled explicitly.  The generator works on 64-bit words (unsigned     *)
(* long on LP64), kept as 16-bit limbs; its conversion to double rounds to *)
(* 53 significant bits as the hardware does.                               *)
(***************************************************************************)
EXTENDS Integers, Sequences, FiniteSets, TLC

VARIABLES
    pc,      \* position in Lsolver::solve / computeEtaAtStationarity / estimateEta
    g,       \* the Graph collaborator: [n, den, P, d]
    b,       \* the demand vector, b[1..n] (C index i is i+1 here)
    e12,     \* <<e1, e2>> in tenths: the Lsolver members e1, e2
    NDEBUG,  \* whether the build compiles assert() out
    J,       \* injection rates, computeJ's output
    alias,   \* alias[i][c], computeAliasAndProb's output
    prob,    \* prob[i][c], numerators over g.den, computeAliasAndProb's output
    beta,    \* the current candidate, <<num, den>>
    sim,     \* estimateEta's arrays and locals: Q, cnt, inQ, epoch, t, oldC, newC
    eta,     \* *eta: [num, den], numerators cnt[i] over the denominator T
    max_eta, \* max(n, *eta) as <<num, den>>
    rng,     \* the static generator state [x, y, z]
    x,       \* *x, the solution
    cands,   \* history: the candidates passed to estimateEta, in order
    simB,    \* second run of estimateEta (determinism check)
    etaB,    \*   its eta
    rngB,    \*   its generator state
    am,      \* one AliasMethod call, step by step
    cn,      \* one computeCanonicalSolution call
    runs,    \* history: [beta, eta] of every estimateEta call that returned
    smp,     \* one pickRandomNeighbor call
    st       \* one time step of estimateEta, vertex by vertex

vars == <<pc, g, b, e12, NDEBUG, J, alias, prob, beta, sim, eta, max_eta, rng,
          x, cands, simB, etaB, rngB, am, cn, runs, smp, st>>

-----------------------------------------------------------------------------
(* Bounds of the model *)

\* The halving that takes beta to 0.  In binary64 the 1075th halving of 1.28
\* underflows to 0; the model's beta has a shorter exponent range.
BetaUnderflowAt == 5

\* #define LENGTH_OF_EPOCH 1000 and #define MAX_EPOCHS 1000, scaled down.
LENGTH_OF_EPOCH == 3
MAX_EPOCHS == 3

-----------------------------------------------------------------------------
(* Small helpers *)

Abs(v) == IF v < 0 THEN -v ELSE v

\* F(e) with e evaluated once: "auto v = e; ... v ... v ..."
Bind(e, F(_)) == CHOOSE y \in {F(v) : v \in {e}} : TRUE

RECURSIVE SumTo(_, _)
\* sum(n, a): std::accumulate over a[1..n]
SumTo(a, k) == IF k = 0 THEN 0 ELSE a[k] + SumTo(a, k - 1)

sum(a) == SumTo(a, Len(a))

RECURSIVE MaxTo(_, _)
\* max(n, a): std::max_element over a[1..n], n >= 1
MaxTo(a, k) == IF k = 1 THEN a[1]
               ELSE Bind(MaxTo(a, k - 1), LAMBDA m : IF a[k] > m THEN a[k] ELSE m)

max(a) == MaxTo(a, Len(a))

-----------------------------------------------------------------------------------------------------------------------------------------------------
(* The generator.  A 64-bit word (unsigned long on LP64) is kept as four   *)
(* 16-bit limbs <<l0, l1, l2, l3>>, l0 the least significant.              *)

LimbSize == 65536

RECURSIVE XorInt(_, _)
\* u ^ v for two non-negative integers
XorInt(u, v) ==
    IF u = 0 THEN v
    ELSE IF v = 0 THEN u
    ELSE ((u + v) % 2) + 2 * XorInt(u \div 2, v \div 2)

Xor(u, v) == <<XorInt(u[1], v[1]), XorInt(u[2], v[2]),
               XorInt(u[3], v[3]), XorInt(u[4], v[4])>>

\* w << 16, w >> 5 and w << 1 on 64 bits
Shl16(w) == <<0, w[1], w[2], w[3]>>

Shr5(w) == <<(w[1] \div 32) + 2048 * (w[2] % 32),
             (w[2] \div 32) + 2048 * (w[3] % 32),
             (w[3] \div 32) + 2048 * (w[4] % 32),
             w[4] \div 32>>

Shl1(w) == <<(2 * w[1]) % LimbSize,
             ((2 * w[2]) % LimbSize) + (w[1] \div 32768),
             ((2 * w[3]) % LimbSize) + (w[2] \div 32768),
             ((2 * w[4]) % LimbSize) + (w[3] \div 32768)>>

\* The word of a value below 2^31
Word(v) == <<v % LimbSize, v \div LimbSize, 0, 0>>

\* static unsigned long x = 123456789, y = 362436069, z = 521288629;
Seed0 == [x |-> Word(123456789), y |-> Word(362436069), z |-> Word(521288629)]

\* xorshf96(): the state after one call; the value returned is the new z.
xorshf96(r) ==
    Bind(Xor(r.x, Shl16(r.x)), LAMBDA x1 :
    Bind(Xor(x1, Shr5(x1)), LAMBDA x2 :
    Bind(Xor(x2, Shl1(x2)), LAMBDA x3 :
    Bind(Xor(x3, r.y), LAMBDA t :
         [x |-> r.y, y |-> r.z, z |-> Xor(t, r.z)]))))

RECURSIVE BitLen(_)
\* The number of significant bits of v >= 0
BitLen(v) == IF v = 0 THEN 0 ELSE 1 + BitLen(v \div 2)

\* (double) w for a 64-bit w: the nearest value with 53 significant bits, ties
\* to even.  At most the low 11 bits are rounded away, all of them in l0.  The
\* result has a fifth limb, 1 when w rounds up to 2^64.
ToDouble(w) ==
    Bind(IF BitLen(w[4]) > 5 THEN 2^(BitLen(w[4]) - 5) ELSE 1, LAMBDA unit :
    Bind(w[1] % unit, LAMBDA low :
    Bind(\/ 2 * low > unit
         \/ 2 * low = unit /\ (w[1] \div unit) % 2 = 1, LAMBDA up :
    Bind(w[1] - low + (IF up THEN unit ELSE 0), LAMBDA t1 :
    Bind(w[2] + (t1 \div LimbSize), LAMBDA t2 :
    Bind(w[3] + (t2 \div LimbSize), LAMBDA t3 :
    Bind(w[4] + (t3 \div LimbSize), LAMBDA t4 :
         <<t1 % LimbSize, t2 % LimbSize, t3 % LimbSize, t4 % LimbSize,
           t4 \div LimbSize>>)))))))

\* const unsigned long long MAX = 18446744073709551615ULL; as a double it is
\* 2^64, so random_double() = ToDouble(xorshf96()) / 2^64.  The value is kept as
\* its numerator over 2^64; r is the generator state after the xorshf96 call.
random_double(r) == ToDouble(r.z)

\* Byte j (0..7) of the low 64 bits of a random_double
Byte(dv, j) == (dv[(j \div 2) + 1] \div (IF j % 2 = 0 THEN 1 ELSE 256)) % 256

RECURSIVE MulCarry(_, _, _)
\* The carry out of byte j-1 of dv * m, and whether bytes 0..j-1 of it are all 0:
\* <<carry, zero>>.
MulCarry(dv, m, j) ==
    IF j = 0 THEN <<0, TRUE>>
    ELSE Bind(MulCarry(dv, m, j - 1), LAMBDA p :
         Bind(Byte(dv, j - 1) * m + p[1], LAMBDA t :
              <<t \div 256, p[2] /\ (t % 256 = 0)>>))

\* dv * m / 2^64 for a random_double dv and 0 < m < 2^22: [floor, exact].
MulTop(dv, m) ==
    Bind(MulCarry(dv, m, 8), LAMBDA p :
         [floor |-> dv[5] * m + p[1], exact |-> p[2]])

\* dv/2^64 <= q[1]/q[2] and dv/2^64 < q[1]/q[2], for a rational q (q[2] > 0)
LeqRat(dv, q) ==
    Bind(MulTop(dv, q[2]), LAMBDA p :
         p.floor < q[1] \/ (p.floor = q[1] /\ p.exact))

LessRat(dv, q) == MulTop(dv, q[2]).floor < q[1]

-----------------------------------------------------------------------------
(* AliasMethod                                                             *)
(*                                                                         *)
(* A row is a vector of numerators over the denominator den.  After        *)
(* P[i] *= n the code's P[i] is P[i]/den with the numerator multiplied by  *)
(* n, so "P[i] < 1" is "P[i] < den", and prob = 1 is the numerator den.    *)
(* small[] and large[] with their tops stop and ltop are the sequences     *)
(* small and large: stop = Len(small), ltop = Len(large).                  *)

\* An element of new double[n] / new int[n] that has not been written.
Uninit == -1

\* Lines 135-138: the worklists are allocated and empty; alias and prob are
\* the caller's arrays, freshly allocated by initNewMemory2d.  row keeps the
\* row as passed in (the code scales P in place), writes counts the
\* assignments to each prob[c], iters the iterations of the pairing loop.
AliasStart(n, den, row) ==
    [pc |-> "classify", n |-> n, den |-> den, row |-> row, P |-> row, i |-> 1,
     small |-> <<>>, large |-> <<>>,
     alias |-> [c \in 1..n |-> Uninit], prob |-> [c \in 1..n |-> Uninit],
     writes |-> [c \in 1..n |-> 0], iters |-> 0]

\* A variant that returns when the pairing loop ends, without lines 164-165.
AfterPairingNoDrain(small, large) ==
    IF Len(small) > 0 /\ Len(large) > 0 THEN "pair" ELSE "done"

\* Where control goes once the pairing loop's test is evaluated.
AfterPairing(small, large) ==
    IF Len(small) > 0 /\ Len(large) > 0 THEN "pair"
    ELSE IF Len(large) > 0 THEN "drainLarge"
    ELSE IF Len(small) > 0 THEN "drainSmall"
    ELSE "done"

\* One iteration of the loop at lines 139-146.
AliasClassify(a) ==
    Bind(a.P[a.i] * a.n, LAMBDA v :
    Bind(IF v < a.den THEN Append(a.small, a.i) ELSE a.small, LAMBDA sm :
    Bind(IF v < a.den THEN a.large ELSE Append(a.large, a.i), LAMBDA lg :
         [a EXCEPT !.P[a.i] = v, !.small = sm, !.large = lg, !.i = a.i + 1,
                   !.pc = IF a.i = a.n THEN AfterPairing(sm, lg)
                          ELSE "classify"])))

\* A variant that takes all of P[less] from the donor.
DonateAll(a, less, more) == a.P[more] - a.P[less]

\* P[more] -= (1 - P[less]), line 155.
Donate(a, less, more) == a.P[more] - (a.den - a.P[less])

\* One iteration of the loop at lines 148-162.
AliasPair(a) ==
    Bind(a.small[Len(a.small)], LAMBDA less :
    Bind(a.large[Len(a.large)], LAMBDA more :
    Bind(SubSeq(a.small, 1, Len(a.small) - 1), LAMBDA sm0 :
    Bind(SubSeq(a.large, 1, Len(a.large) - 1), LAMBDA lg0 :
    Bind(Donate(a, less, more), LAMBDA v :
    Bind(IF v < a.den THEN Append(sm0, more) ELSE sm0, LAMBDA sm :
    Bind(IF v < a.den THEN lg0 ELSE Append(lg0, more), LAMBDA lg :
         [a EXCEPT !.prob[less] = a.P[less], !.alias[less] = more,
                   !.writes[less] = a.writes[less] + 1,
                   !.P[more] = v, !.small = sm, !.large = lg,
                   !.iters = a.iters + 1, !.pc = AfterPairing(sm, lg)])))))))

\* One iteration of line 164: while (ltop > 0) prob[large[--ltop]] = 1;
AliasDrainLarge(a) ==
    LET c  == a.large[Len(a.large)]
        lg == SubSeq(a.large, 1, Len(a.large) - 1)
    IN  [a EXCEPT !.prob[c] = a.den, !.writes[c] = a.writes[c] + 1, !.large = lg,
                  !.pc = IF Len(lg) > 0 THEN "drainLarge"
                         ELSE IF Len(a.small) > 0 THEN "drainSmall" ELSE "done"]

\* One iteration of line 165: while (stop > 0) prob[small[--stop]] = 1;
AliasDrainSmall(a) ==
    LET c  == a.small[Len(a.small)]
        sm == SubSeq(a.small, 1, Len(a.small) - 1)
    IN  [a EXCEPT !.prob[c] = a.den, !.writes[c] = a.writes[c] + 1, !.small = sm,
                  !.pc = IF Len(sm) > 0 THEN "drainSmall" ELSE "done"]

AliasStep(a) ==
    CASE a.pc = "classify"   -> AliasClassify(a)
      [] a.pc = "pair"       -> AliasPair(a)
      [] a.pc = "drainLarge" -> AliasDrainLarge(a)
      [] a.pc = "drainSmall" -> AliasDrainSmall(a)

RECURSIVE AliasRun(_)
AliasRun(a) ==
    IF a.pc = "done" THEN a ELSE Bind(AliasStep(a), LAMBDA a2 : AliasRun(a2))

\* AliasMethod(n, P, alias, prob) run to its return.
AliasMethod(n, den, row) ==
    Bind(AliasStart(n, den, row), LAMBDA a : AliasRun(a))

\* computeAliasAndProb: one AliasMethod call per row of the transition matrix.
computeAliasAndProb(gr) ==
    [i \in 1..gr.n |-> AliasMethod(gr.n, gr.den, gr.P[i])]

-----------------------------------------------------------------------------
(* computeJ and the injection draw *)

\* -b[i]/b[n-1] in IEEE arithmetic: a rational, or +inf, -inf, NaN when the
\* divisor b[n-1] is 0.
Quotient(bi, bl) ==
    IF bl > 0 THEN [k |-> "fin", q |-> <<-bi, bl>>]
    ELSE IF bl < 0 THEN [k |-> "fin", q |-> <<bi, -bl>>]
    ELSE IF bi < 0 THEN [k |-> "inf"]
    ELSE IF bi > 0 THEN [k |-> "ninf"]
    ELSE [k |-> "nan"]

\* computeJ: J[i] = -b[i]/b[n - 1] for every i, the sink included.
computeJ(n, bv) == [i \in 1..n |-> Quotient(bv[i], bv[n])]

\* trueWithProbability(beta * J[i]) for the draw dv: random_double() <= p.
\* beta * (+inf) is +inf for beta > 0 and NaN for beta = 0; a comparison with
\* NaN is false.
trueWithProbability(dv, bt, Ji) ==
    IF Ji.k = "fin"
    THEN LeqRat(dv, <<bt[1] * Ji.q[1], bt[2] * Ji.q[2]>>)
    ELSE Ji.k = "inf" /\ bt[1] > 0

-----------------------------------------------------------------------------
(* pickRandomNeighbor and estimateEta *)

\* pickRandomNeighbor(n, alias, prob): two draws.  The result is
\* [v, r, ub, col]: the vertex, the generator state after the draws, ub = 1
\* when the value was read from outside the arrays or from an element never
\* written (then v is the indeterminate value u), else 0, and the column drawn.
pickRandomNeighbor(n, den, al, pr, r0, u) ==
    Bind(xorshf96(r0), LAMBDA r1 :
    Bind(MulTop(random_double(r1), n).floor + 1, LAMBDA col :
    Bind(xorshf96(r1), LAMBDA r2 :
         IF col > n THEN [v |-> u, r |-> r2, ub |-> 1, col |-> col]
         ELSE IF LessRat(random_double(r2), <<pr[col], den>>)
              THEN [v |-> col, r |-> r2, ub |-> 0, col |-> col]
         ELSE IF al[col] = Uninit THEN [v |-> u, r |-> r2, ub |-> 1, col |-> col]
         ELSE [v |-> al[col], r |-> r2, ub |-> 0, col |-> col])))

\* A variant that leaves cnt as it finds it.
EnterKeepingCnt(s, n) ==
    [s EXCEPT !.pc = "epoch", !.Q = [i \in 1..n |-> 0],
              !.inQ = [i \in 1..n |-> 0], !.epoch = 0, !.t = 0,
              !.oldC = <<0, 1>>, !.newC = <<0, 1>>]

\* What the call has done so far, kept beside its arrays for the record:
\* steps simulated, steps in which vertex i was seen with Q[i] > 0 after its
\* injection draw, packets injected, and for the step in progress each
\* vertex's injection draw, departure and destination.
NoRecord(n) ==
    [steps |-> 0, busy |-> [i \in 1..n |-> 0], injected |-> 0,
     inj |-> [i \in 1..n |-> 0], dep |-> [i \in 1..n |-> 0],
     dst |-> [i \in 1..n |-> 0]]

\* Lines 97-105: the arrays are cleared and the locals initialised.
EstimateEtaEnter(s, n) ==
    [pc |-> "epoch", Q |-> [i \in 1..n |-> 0], cnt |-> [i \in 1..n |-> 0],
     inQ |-> [i \in 1..n |-> 0], epoch |-> 0, t |-> 0,
     oldC |-> <<0, 1>>, newC |-> <<0, 1>>, ub |-> s.ub, h |-> NoRecord(n)]

\* Lines 107-108, and t = 0 of the for loop.
EpochBegin(s) ==
    [s EXCEPT !.pc = "forward", !.epoch = s.epoch + 1, !.oldC = s.newC, !.t = 0]

\* The record of vertex i's visit: injection draw inj (0 or 1), the queue q
\* it had after the draw, departure dep (0 or 1) to dst.
Noted(h, i, inj, q, dep, dst) ==
    [h EXCEPT !.inj[i] = inj, !.dep[i] = dep, !.dst[i] = dst,
              !.injected = h.injected + inj,
              !.busy[i] = h.busy[i] + (IF q > 0 THEN 1 ELSE 0)]

\* A variant in which a vertex keeps its last packet.
VisitHoldingOne(s, i, inj, dst, ub) ==
    Bind(s.Q[i] + inj, LAMBDA q :
         IF q <= 1
         THEN [s EXCEPT !.Q[i] = q, !.h = Noted(s.h, i, inj, q, 0, 0)]
         ELSE [s EXCEPT !.Q[i] = q - 1,
                        !.cnt[i] = s.cnt[i] + 1,
                        !.inQ[dst] = s.inQ[dst] + 1,
                        !.ub = s.ub + ub,
                        !.h = Noted(s.h, i, inj, q, 1, dst)])

\* A variant that delivers the departing packet twice.
VisitDuplicating(s, i, inj, dst, ub) ==
    Bind(s.Q[i] + inj, LAMBDA q :
         IF q = 0
         THEN [s EXCEPT !.Q[i] = q, !.h = Noted(s.h, i, inj, q, 0, 0)]
         ELSE [s EXCEPT !.Q[i] = q - 1,
                        !.cnt[i] = s.cnt[i] + 1,
                        !.inQ[dst] = s.inQ[dst] + 2,
                        !.ub = s.ub + ub,
                        !.h = Noted(s.h, i, inj, q, 1, dst)])

\* A variant that puts the departing packet straight into Q[dst].
VisitInterleaved(s, i, inj, dst, ub) ==
    Bind(s.Q[i] + inj, LAMBDA q :
         IF q = 0
         THEN [s EXCEPT !.Q[i] = q, !.h = Noted(s.h, i, inj, q, 0, 0)]
         ELSE [[s EXCEPT !.Q[i] = q - 1,
                         !.cnt[i] = s.cnt[i] + 1,
                         !.ub = s.ub + ub,
                         !.h = Noted(s.h, i, inj, q, 1, dst)]
                  EXCEPT !.Q[dst] = @ + 1])

\* Lines 112-116 for vertex i, given the outcome inj (0 or 1) of the
\* injection draw and, for the case that a packet leaves, the vertex dst that
\* pickRandomNeighbor returns (with its ub).
VisitDrawn(s, i, inj, dst, ub) ==
    Bind(s.Q[i] + inj, LAMBDA q :
         IF q = 0
         THEN [s EXCEPT !.Q[i] = q, !.h = Noted(s.h, i, inj, q, 0, 0)]
         ELSE [s EXCEPT !.Q[i] = q - 1,
                        !.cnt[i] = s.cnt[i] + 1,
                        !.inQ[dst] = s.inQ[dst] + 1,
                        !.ub = s.ub + ub,
                        !.h = Noted(s.h, i, inj, q, 1, dst)])

\* The body of the loop at lines 110-117 for vertex i: [s, r].  The second
\* and third draws are made only when Q[i] is not 0 after the first.
Visit(sr, i, n, den, al, pr, bt, Jv, u) ==
    Bind(xorshf96(sr.r), LAMBDA r1 :
    Bind(IF trueWithProbability(random_double(r1), bt, Jv[i]) THEN 1 ELSE 0,
         LAMBDA inj :
         IF sr.s.Q[i] + inj = 0
         THEN [s |-> VisitDrawn(sr.s, i, inj, i, 0), r |-> r1]
         ELSE Bind(pickRandomNeighbor(n, den, al[i], pr[i], r1, u), LAMBDA pk :
                   [s |-> VisitDrawn(sr.s, i, inj, pk.v, pk.ub), r |-> pk.r])))

RECURSIVE VisitTo(_, _, _, _, _, _, _, _, _)
\* for (int i = 0; i < n - 1; ++i): vertices 1..k in order.
VisitTo(sr, k, n, den, al, pr, bt, Jv, u) ==
    IF k = 0 THEN sr
    ELSE Bind(VisitTo(sr, k - 1, n, den, al, pr, bt, Jv, u), LAMBDA p :
              Visit(p, k, n, den, al, pr, bt, Jv, u))

\* Lines 110-117: every non-sink vertex injects and forwards: [s, r].
Forward(s, r, n, den, al, pr, bt, Jv, u) ==
    Bind(VisitTo([s |-> s, r |-> r], n - 1, n, den, al, pr, bt, Jv, u),
         LAMBDA out : [s |-> [out.s EXCEPT !.pc = "merge",
                                           !.h.steps = out.s.h.steps + 1],
                       r |-> out.r])

RECURSIVE VisitDrawnTo(_, _, _, _)
\* for (int i = 0; i < n - 1; ++i) with the draws given: vertices 1..k in
\* order, vertex i with the draws inj[i] and dst[i].
VisitDrawnTo(s, k, inj, dst) ==
    IF k = 0 THEN s
    ELSE Bind(VisitDrawnTo(s, k - 1, inj, dst), LAMBDA p :
              VisitDrawn(p, k, inj[k], dst[k], 0))

\* Lines 119-122 and ++t: the inboxes are merged into Q and cleared.
Merge(s, n) ==
    [s EXCEPT !.Q = [i \in 1..n |-> s.Q[i] + s.inQ[i]],
              !.inQ = [i \in 1..n |-> 0],
              !.t = s.t + 1,
              !.pc = IF s.t + 1 < LENGTH_OF_EPOCH THEN "forward" ELSE "epochEnd"]

\* fabs(oldC - newC) > 1e-4
Drift(oldC, newC) ==
    10000 * Abs(oldC[1] * newC[2] - newC[1] * oldC[2]) > oldC[2] * newC[2]

\* A variant whose test lets one more epoch through.
EpochEndLate(s, n) ==
    Bind(<<s.Q[n], 1 + sum(s.Q)>>, LAMBDA c :
         [s EXCEPT !.newC = c,
                   !.pc = IF Drift(s.oldC, c) /\ s.epoch < MAX_EPOCHS + 1
                          THEN "epoch" ELSE "finish"])

\* Lines 124-125: the statistic and the loop test.
EpochEnd(s, n) ==
    Bind(<<s.Q[n], 1 + sum(s.Q)>>, LAMBDA c :
         [s EXCEPT !.newC = c,
                   !.pc = IF Drift(s.oldC, c) /\ s.epoch < MAX_EPOCHS
                          THEN "epoch" ELSE "finish"])

\* A variant with T = epoch.
EtaOverEpochs(s, n) ==
    [num |-> [i \in 1..n |-> IF i < n THEN s.cnt[i] ELSE 0], den |-> s.epoch]

\* A variant with T = LENGTH_OF_EPOCH.
EtaOverOneEpoch(s, n) ==
    [num |-> [i \in 1..n |-> IF i < n THEN s.cnt[i] ELSE 0],
     den |-> LENGTH_OF_EPOCH]

\* Lines 127-131: eta[i] = cnt[i]/T for i < n - 1, eta[n - 1] = 0, as the
\* numerators over T = epoch * LENGTH_OF_EPOCH.
EtaOf(s, n) ==
    [num |-> [i \in 1..n |-> IF i < n THEN s.cnt[i] ELSE 0],
     den |-> s.epoch * LENGTH_OF_EPOCH]

\* What a finished estimateEta call hands to its caller: the function is void
\* and its one output parameter is eta.
EstimateEtaResult(et) == [eta |-> et]

\* One step of an estimateEta call on the run [s, eta, r]: the arrays and
\* locals, the caller's eta, the generator.
EstimateEtaStep(run, n, den, al, pr, bt, Jv, u) ==
    CASE run.s.pc = "enter"    -> [run EXCEPT !.s = EstimateEtaEnter(run.s, n)]
      [] run.s.pc = "epoch"    -> [run EXCEPT !.s = EpochBegin(run.s)]
      [] run.s.pc = "forward"  ->
            Bind(Forward(run.s, run.r, n, den, al, pr, bt, Jv, u),
                 LAMBDA f : [run EXCEPT !.s = f.s, !.r = f.r])
      [] run.s.pc = "merge"    -> [run EXCEPT !.s = Merge(run.s, n)]
      [] run.s.pc = "epochEnd" -> [run EXCEPT !.s = EpochEnd(run.s, n)]
      [] run.s.pc = "finish"   ->
            [run EXCEPT !.s = [run.s EXCEPT !.pc = "returned"],
                        !.eta = EtaOf(run.s, n)]

-----------------------------------------------------------------------------
(* computeCanonicalSolution *)

RECURSIVE ProdTo(_, _)
ProdTo(a, k) == IF k = 0 THEN 1 ELSE a[k] * ProdTo(a, k - 1)

\* Lines 245-247: (*x)[i] = (-b[n - 1]/beta) * (eta[i]/d[i]), as numerators
\* over the common denominator beta.num * eta.den * d[1] * ... * d[n].
CanonFill(n, bl, et, bt, d) ==
    Bind(ProdTo(d, n), LAMBDA pd :
         [num |-> [i \in 1..n |-> (0 - bl) * bt[2] * et.num[i] * (pd \div d[i])],
          den |-> bt[1] * et.den * pd])

\* A variant that divides the sum by n + 1.
AverageOverMore(n, v) == <<SumTo(v.num, n), (n + 1) * v.den>>

\* Line 250: avg_x = sum(n, *x)/n, as <<num, den>>.
Average(n, v) == <<SumTo(v.num, n), n * v.den>>

\* Lines 250-253: (*x)[i] -= avg_x, over the denominator of avg_x, which is a
\* multiple of v's.
CanonCenter(n, v) ==
    Bind(Average(n, v), LAMBDA avg :
         [num |-> [i \in 1..n |-> v.num[i] * (avg[2] \div v.den) - avg[1]],
          den |-> avg[2]])

\* computeCanonicalSolution(g, b, eta, beta, x).  With beta = 0 the factor
\* -b[n - 1]/beta is an infinity or NaN and no entry of x is a finite number.
computeCanonicalSolution(n, bv, et, bt, d) ==
    IF bt[1] = 0 THEN [finite |-> FALSE, num |-> <<>>, den |-> 1]
    ELSE Bind(CanonFill(n, bv[n], et, bt, d), LAMBDA v :
         Bind(CanonCenter(n, v), LAMBDA c :
              [finite |-> TRUE, num |-> c.num, den |-> c.den]))

-----------------------------------------------------------------------------
(* computeEtaAtStationarity and solve *)

\* double beta = 1.28;
BetaStart == <<32, 25>>

\* A variant that quarters.
Quarter(bt) ==
    IF bt[1] = 0 \/ 4 * bt[2] >= 25 * (2^BetaUnderflowAt) THEN <<0, 1>>
    ELSE <<bt[1], 4 * bt[2]>>

\* beta /= 2.  The halving number BetaUnderflowAt yields 0, and 0/2 is 0.
Half(bt) ==
    IF bt[1] = 0 \/ 2 * bt[2] >= 25 * (2^BetaUnderflowAt) THEN <<0, 1>>
    ELSE <<bt[1], 2 * bt[2]>>

\* A variant that looks at the first vertex only.
MaxEtaFirst(et) == <<et.num[1], et.den>>

\* max(n, *eta), as <<num, den>>
MaxEta(et) == <<max(et.num), et.den>>

\* max_eta > 0.75*(1 - e1 - e2), e1 and e2 in tenths
AboveBound(me, e) == 40 * me[1] > 3 * (10 - e[1] - e[2]) * me[2]

\* A variant of the test without "and beta > 0".
ContinueWhileAbove(me, e, bt) == AboveBound(me, e)

\* The test of the do-while at line 222.
ContinueSearch(me, e, bt) == AboveBound(me, e) /\ bt[1] > 0

\* Lines 41-42 of solve: whether control passes the assertions.
PassesAsserts(ndebug, bt) == ndebug \/ bt[1] > 0

-----------------------------------------------------------------------------
(* Inputs *)

\* The path 0-1-2 of the end-to-end scenario, a single edge, the triangle, and
\* a triangle with edge weights 1, 2, 3: transition rows over den, degrees d.
Path3 == [n |-> 3, den |-> 2, P |-> <<<<0, 2, 0>>, <<1, 0, 1>>, <<0, 2, 0>>>>,
          d |-> <<1, 2, 1>>]
Edge2 == [n |-> 2, den |-> 1, P |-> <<<<0, 1>>, <<1, 0>>>>, d |-> <<1, 1>>]
Tri3  == [n |-> 3, den |-> 2, P |-> <<<<0, 1, 1>>, <<1, 0, 1>>, <<1, 1, 0>>>>,
          d |-> <<2, 2, 2>>]
Wtd3  == [n |-> 3, den |-> 60,
          P |-> <<<<0, 20, 40>>, <<15, 0, 45>>, <<24, 36, 0>>>>,
          d |-> <<3, 4, 5>>]

Graphs == {Path3, Edge2, Tri3, Wtd3}

\* Demand vectors summing to 0; the last of each length has b[n - 1] = 0.
Demands(n) ==
    IF n = 2 THEN {<<-1, 1>>, <<0, 0>>}
    ELSE {<<1, -2, 1>>, <<-1, -1, 2>>, <<-1, 1, 0>>}

ValidDemands(n) == {bv \in Demands(n) : bv[n] # 0}

\* <<e1, e2>> in tenths: the scenario's 0.1, 0.1, and a pair with e1 + e2 > 1.
Tolerances == {<<1, 1>>, <<5, 6>>}

\* The generator state at entry: the static initialisers, and the state three
\* draws later (the statics live on from one solve call to the next).
Seeds == {Seed0, xorshf96(xorshf96(xorshf96(Seed0)))}

\* What new int[n] may hold before estimateEta clears it.
Garbage == {0, 5}

FreshSim(n, gv) ==
    [pc |-> "idle", Q |-> [i \in 1..n |-> gv], cnt |-> [i \in 1..n |-> gv],
     inQ |-> [i \in 1..n |-> gv], epoch |-> 0, t |-> 0,
     oldC |-> <<0, 1>>, newC |-> <<0, 1>>, ub |-> 0, h |-> NoRecord(n)]

FreshEta(n, gv) == [num |-> [i \in 1..n |-> gv], den |-> 1]

NoSim == FreshSim(1, 0)
NoEta == FreshEta(1, 0)
NoX   == [finite |-> FALSE, num |-> <<>>, den |-> 1]
NoAm  == [pc |-> "off"]
NoCn  == [pc |-> "off"]
NoSmp  == [pc |-> "off"]
NoSt  == [pc |-> "off"]

-----------------------------------------------------------------------------
(* Specification Spec: one call of Lsolver::solve *)

Init ==
    /\ pc = "solve"
    /\ g \in Graphs
    /\ b \in Demands(g.n)
    /\ e12 \in Tolerances
    /\ NDEBUG \in BOOLEAN
    /\ J = <<>> /\ alias = <<>> /\ prob = <<>>
    /\ beta = BetaStart
    /\ \E gv \in Garbage : sim = FreshSim(g.n, gv) /\ eta = FreshEta(g.n, gv)
    /\ max_eta = <<0, 1>>
    /\ rng \in Seeds
    /\ x = NoX
    /\ cands = <<>>
    /\ simB = NoSim /\ etaB = NoEta /\ rngB = Seed0
    /\ am = NoAm /\ cn = NoCn /\ runs = <<>> /\ smp = NoSmp /\ st = NoSt

\* computeEtaAtStationarity, lines 190-215: J, the alias tables, the arrays.
Setup ==
    /\ pc = "solve"
    /\ pc' = "halve"
    /\ J' = computeJ(g.n, b)
    /\ \E tab \in {computeAliasAndProb(g)} :
          /\ alias' = [i \in 1..g.n |-> tab[i].alias]
          /\ prob' = [i \in 1..g.n |-> tab[i].prob]
    /\ UNCHANGED <<g, b, e12, NDEBUG, beta, sim, eta, max_eta, rng, x, cands,
                   simB, etaB, rngB, am, cn, runs, smp, st>>

\* Line 217 and the call at line 219.
Halve ==
    /\ pc = "halve"
    /\ pc' = "estimateEta"
    /\ beta' = Half(beta)
    /\ cands' = Append(cands, beta')
    /\ sim' = [sim EXCEPT !.pc = "enter"]
    /\ UNCHANGED <<g, b, e12, NDEBUG, J, alias, prob, eta, max_eta, rng, x,
                   simB, etaB, rngB, am, cn, runs, smp, st>>

\* One step of the estimateEta call in progress.  u is the indeterminate
\* value a read outside the alias table yields, if the step makes one.
SimStep ==
    /\ pc = "estimateEta"
    /\ \E first \in {EstimateEtaStep([s |-> sim, eta |-> eta, r |-> rng],
                                     g.n, g.den, alias, prob, beta, J, 1)} :
       \E u \in IF first.s.ub = sim.ub THEN {1} ELSE 1..g.n :
       \E run \in {IF u = 1 THEN first
                   ELSE EstimateEtaStep([s |-> sim, eta |-> eta, r |-> rng],
                                        g.n, g.den, alias, prob, beta, J, u)} :
          /\ sim' = run.s /\ eta' = run.eta /\ rng' = run.r
          /\ runs' = IF run.s.pc = "returned"
                     THEN Append(runs, [beta |-> beta, eta |-> EtaOf(sim, g.n)])
                     ELSE runs
    /\ UNCHANGED <<pc, g, b, e12, NDEBUG, J, alias, prob, beta, max_eta, x,
                   cands, simB, etaB, rngB, am, cn, smp, st>>

\* estimateEta, lines 97-105
DoEnter ==
    /\ sim.pc = "enter"
    /\ SimStep

\* Lines 106-108
DoEpochBegin ==
    /\ sim.pc = "epoch"
    /\ SimStep

\* Lines 110-117
DoForward ==
    /\ sim.pc = "forward"
    /\ SimStep

\* Lines 119-122
DoMerge ==
    /\ sim.pc = "merge"
    /\ SimStep

\* Lines 124-125
DoEpochEnd ==
    /\ sim.pc = "epochEnd"
    /\ SimStep

\* Lines 127-131
DoFinish ==
    /\ sim.pc = "finish"
    /\ SimStep

\* A variant of the loop that halves beta after the simulation.
LoopTestThenHalve ==
    /\ pc = "estimateEta"
    /\ sim.pc = "returned"
    /\ max_eta' = MaxEta(eta)
    /\ beta' = Half(beta)
    /\ pc' = IF ContinueSearch(max_eta', e12, beta) THEN "halve" ELSE "return"
    /\ sim' = [sim EXCEPT !.pc = "idle"]
    /\ UNCHANGED <<g, b, e12, NDEBUG, J, alias, prob, eta, rng, x, cands,
                   simB, etaB, rngB, am, cn, runs, smp, st>>

\* Lines 221-222: max_eta and the loop test.
LoopTest ==
    /\ pc = "estimateEta"
    /\ sim.pc = "returned"
    /\ max_eta' = MaxEta(eta)
    /\ pc' = IF ContinueSearch(max_eta', e12, beta) THEN "halve" ELSE "return"
    /\ sim' = [sim EXCEPT !.pc = "idle"]
    /\ UNCHANGED <<g, b, e12, NDEBUG, J, alias, prob, beta, eta, rng, x, cands,
                   simB, etaB, rngB, am, cn, runs, smp, st>>

\* Lines 224-231, then lines 41-42 of solve.
Return ==
    /\ pc = "return"
    /\ pc' = IF PassesAsserts(NDEBUG, beta) THEN "canon" ELSE "aborted"
    /\ UNCHANGED <<g, b, e12, NDEBUG, J, alias, prob, beta, sim, eta, max_eta,
                   rng, x, cands, simB, etaB, rngB, am, cn, runs, smp, st>>

\* Lines 44-48 of solve.
Canon ==
    /\ pc = "canon"
    /\ pc' = "done"
    /\ x' = computeCanonicalSolution(g.n, b, eta, beta, g.d)
    /\ UNCHANGED <<g, b, e12, NDEBUG, J, alias, prob, beta, sim, eta, max_eta,
                   rng, cands, simB, etaB, rngB, am, cn, runs, smp, st>>

Next ==
    \/ Setup \/ Halve
    \/ DoEnter \/ DoEpochBegin \/ DoForward \/ DoMerge \/ DoEpochEnd \/ DoFinish
    \/ LoopTest \/ Return \/ Canon

Spec == Init /\ [][Next]_vars

\* solve calls in a build that keeps assertions, from the generator's static
\* initialisers.
FirstCallInit == Init /\ rng = Seed0 /\ ~NDEBUG

\* solve is one sequential thread: whatever step is enabled is taken.
SpecFair == FirstCallInit /\ [][Next]_vars /\ WF_vars(Next)

-----------------------------------------------------------------------------
(* Specification SpecAlias: one AliasMethod call on a row of bounded size *)

\* Rows have 2..AliasMaxLen entries, each a multiple of 1/RowDen in [0, 1].
AliasMaxLen == 3
RowDen == 6

\* What the variables of solve hold while another specification runs.
Parked ==
    /\ g = Edge2 /\ b = <<-1, 1>> /\ e12 = <<1, 1>> /\ NDEBUG = FALSE
    /\ J = <<>> /\ alias = <<>> /\ prob = <<>> /\ beta = BetaStart
    /\ sim = NoSim /\ eta = NoEta /\ max_eta = <<0, 1>> /\ rng = Seed0
    /\ x = NoX /\ cands = <<>> /\ runs = <<>>

AliasInit ==
    /\ pc = "AliasMethod"
    /\ Parked
    /\ simB = NoSim /\ etaB = NoEta /\ rngB = Seed0 /\ cn = NoCn
    /\ smp = NoSmp /\ st = NoSt
    /\ \E n \in 2..AliasMaxLen : \E row \in [1..n -> 0..RowDen] :
          am = AliasStart(n, RowDen, row)

AmUnchanged ==
    UNCHANGED <<pc, g, b, e12, NDEBUG, J, alias, prob, beta, sim, eta, max_eta,
                rng, x, cands, simB, etaB, rngB, cn, runs, smp, st>>

AmClassify   == am.pc = "classify" /\ am' = AliasClassify(am) /\ AmUnchanged
AmPair       == am.pc = "pair" /\ am' = AliasPair(am) /\ AmUnchanged
AmDrainLarge == am.pc = "drainLarge" /\ am' = AliasDrainLarge(am) /\ AmUnchanged
AmDrainSmall == am.pc = "drainSmall" /\ am' = AliasDrainSmall(am) /\ AmUnchanged

AliasNext == AmClassify \/ AmPair \/ AmDrainLarge \/ AmDrainSmall

SpecAlias == AliasInit /\ [][AliasNext]_vars

-----------------------------------------------------------------------------
(* Specification SpecDet: estimateEta run twice from the same generator    *)
(* state, over arrays that hold different leftovers                        *)

\* The candidates the two runs are given: 0.64, 0.32 and the underflowed 0.
DetBetas == {Half(BetaStart), Half(Half(BetaStart)), <<0, 1>>}

DetInit ==
    /\ pc = "twoRuns"
    /\ g \in Graphs
    /\ b \in Demands(g.n)
    /\ e12 = <<1, 1>> /\ NDEBUG = FALSE
    /\ J = computeJ(g.n, b)
    /\ \E tab \in {computeAliasAndProb(g)} :
          /\ alias = [i \in 1..g.n |-> tab[i].alias]
          /\ prob = [i \in 1..g.n |-> tab[i].prob]
    /\ beta \in DetBetas
    /\ max_eta = <<0, 1>> /\ x = NoX /\ cands = <<>>
    /\ rng \in Seeds
    /\ rngB = rng
    /\ \E ga \in Garbage :
          /\ sim = [FreshSim(g.n, ga) EXCEPT !.pc = "enter"]
          /\ eta = FreshEta(g.n, ga)
    /\ \E gb \in Garbage :
          /\ simB = [FreshSim(g.n, gb) EXCEPT !.pc = "enter"]
          /\ etaB = FreshEta(g.n, gb)
    /\ am = NoAm /\ cn = NoCn /\ runs = <<>> /\ smp = NoSmp /\ st = NoSt

\* One step of the first run.
RunFirst ==
    /\ pc = "twoRuns"
    /\ sim.pc # "returned"
    /\ \E first \in {EstimateEtaStep([s |-> sim, eta |-> eta, r |-> rng],
                                     g.n, g.den, alias, prob, beta, J, 1)} :
       \E u \in IF first.s.ub = sim.ub THEN {1} ELSE 1..g.n :
       \E run \in {IF u = 1 THEN first
                   ELSE EstimateEtaStep([s |-> sim, eta |-> eta, r |-> rng],
                                        g.n, g.den, alias, prob, beta, J, u)} :
          sim' = run.s /\ eta' = run.eta /\ rng' = run.r
    /\ UNCHANGED <<pc, g, b, e12, NDEBUG, J, alias, prob, beta, max_eta, x,
                   cands, simB, etaB, rngB, am, cn, runs, smp, st>>

\* One step of the second run, started once the first has returned.
RunSecond ==
    /\ pc = "twoRuns"
    /\ sim.pc = "returned"
    /\ simB.pc # "returned"
    /\ \E first \in {EstimateEtaStep([s |-> simB, eta |-> etaB, r |-> rngB],
                                     g.n, g.den, alias, prob, beta, J, 1)} :
       \E u \in IF first.s.ub = simB.ub THEN {1} ELSE 1..g.n :
       \E run \in {IF u = 1 THEN first
                   ELSE EstimateEtaStep([s |-> simB, eta |-> etaB, r |-> rngB],
                                        g.n, g.den, alias, prob, beta, J, u)} :
          simB' = run.s /\ etaB' = run.eta /\ rngB' = run.r
    /\ UNCHANGED <<pc, g, b, e12, NDEBUG, J, alias, prob, beta, max_eta, x,
                   cands, sim, eta, rng, am, cn, runs, smp, st>>

DetNext == RunFirst \/ RunSecond

SpecDet == DetInit /\ [][DetNext]_vars

-----------------------------------------------------------------------------
(* Specification SpecCanon: one computeCanonicalSolution call on bounded   *)
(* inputs                                                                  *)

\* eta[i] = k/CanonT with k in 0..CanonT; degrees in 1..CanonMaxDeg.
CanonT == 2
CanonMaxDeg == 2

CanonSizes == {2, 3}

\* b[n - 1], the only entry of b the function reads
CanonRefs == {-1, 0, 2}

CanonBetas == {Half(BetaStart), Half(Half(BetaStart))}

CanonInit ==
    /\ pc = "computeCanonicalSolution"
    /\ Parked
    /\ simB = NoSim /\ etaB = NoEta /\ rngB = Seed0 /\ am = NoAm
    /\ smp = NoSmp /\ st = NoSt
    /\ \E n \in CanonSizes, bl \in CanonRefs, bt \in CanonBetas :
       \E num \in [1..n -> 0..CanonT], d \in [1..n -> 1..CanonMaxDeg] :
          cn = [pc |-> "fill", n |-> n,
                b |-> [i \in 1..n |-> IF i = n THEN bl ELSE 0],
                eta |-> [num |-> num, den |-> CanonT], beta |-> bt, d |-> d,
                v |-> NoX, x |-> NoX]

CnUnchanged ==
    UNCHANGED <<pc, g, b, e12, NDEBUG, J, alias, prob, beta, sim, eta, max_eta,
                rng, x, cands, simB, etaB, rngB, am, runs, smp, st>>

\* Lines 245-247.  v keeps the uncentred vector for comparison.
CnFill ==
    /\ cn.pc = "fill"
    /\ \E v \in {CanonFill(cn.n, cn.b[cn.n], cn.eta, cn.beta, cn.d)} :
          cn' = [cn EXCEPT !.pc = "center", !.v = v, !.x = v]
    /\ CnUnchanged

\* Lines 250-253.
CnCenter ==
    /\ cn.pc = "center"
    /\ cn' = [cn EXCEPT !.pc = "done", !.x = CanonCenter(cn.n, cn.x)]
    /\ CnUnchanged

CanonNext == CnFill \/ CnCenter

SpecCanon == CanonInit /\ [][CanonNext]_vars

-----------------------------------------------------------------------------
(* Specification SpecSampler: one random_double call and one               *)
(* pickRandomNeighbor call from chosen generator states                    *)

\* Words xorshf96 may return: 2^64 - 1; 2^64 - 1024, the least word that
\* (double) rounds up to 2^64; 2^64 - 1025, the greatest that it rounds down;
\* and 2^63.
AllOnes == <<65535, 65535, 65535, 65535>>
SamplerWords ==
    {AllOnes, <<64512, 65535, 65535, 65535>>, <<64511, 65535, 65535, 65535>>,
     <<0, 0, 0, 32768>>}

\* f^-1(2^64 - 1) for the scrambling f of lines 63-65: from the state
\* [x = it, y = 0, z = c] the first output is (2^64 - 1) ^ c and the second
\* is 2^64 - 1.
ScrambledToOnes == <<59909, 19026, 20268, 6342>>

\* Generator states: the reachable ones of Seeds; states whose next output is
\* a chosen word w (x = y = 0, z = w); states whose second output is 2^64 - 1.
SamplerStates ==
    Seeds
    \cup {[x |-> Word(0), y |-> Word(0), z |-> w] : w \in SamplerWords}
    \cup {[x |-> ScrambledToOnes, y |-> Word(0), z |-> c] :
             c \in {AllOnes, <<65535, 65535, 65535, 32767>>}}

\* The (alias, prob) rows computeAliasAndProb builds for the graphs.
SamplerTables ==
    {[n |-> gr.n, den |-> gr.den, al |-> computeAliasAndProb(gr)[i].alias,
      pr |-> computeAliasAndProb(gr)[i].prob] : gr \in Graphs, i \in 1..2}

SamplerInit ==
    /\ pc = "pickRandomNeighbor"
    /\ Parked
    /\ simB = NoSim /\ etaB = NoEta /\ rngB = Seed0 /\ am = NoAm /\ cn = NoCn
    /\ st = NoSt
    /\ \E tab \in SamplerTables, r \in SamplerStates :
          smp = [pc |-> "draw", n |-> tab.n, den |-> tab.den, al |-> tab.al,
                pr |-> tab.pr, r |-> r, dv |-> <<0, 0, 0, 0, 0>>,
                out |-> [v |-> 1, r |-> r, ub |-> 0, col |-> 1]]

SmpUnchanged ==
    UNCHANGED <<pc, g, b, e12, NDEBUG, J, alias, prob, beta, sim, eta, max_eta,
                rng, x, cands, simB, etaB, rngB, am, cn, runs, st>>

\* Lines 76-78: one random_double() call from the state smp.r.
SmpDraw ==
    /\ smp.pc = "draw"
    /\ smp' = [smp EXCEPT !.pc = "pick", !.dv = random_double(xorshf96(smp.r))]
    /\ SmpUnchanged

\* Lines 84-89: one pickRandomNeighbor call from the state smp.r.
SmpPick ==
    /\ smp.pc = "pick"
    /\ \E u \in 1..smp.n :
       \E out \in {pickRandomNeighbor(smp.n, smp.den, smp.al, smp.pr, smp.r, u)} :
          smp' = [smp EXCEPT !.pc = "done", !.out = out]
    /\ SmpUnchanged

SamplerNext == SmpDraw \/ SmpPick

SpecSampler == SamplerInit /\ [][SamplerNext]_vars

-----------------------------------------------------------------------------
(* Specification SpecStep: one time step of estimateEta (lines 110-122)    *)
(* with the draws of every vertex given, the vertices taken in any order   *)

\* Queues hold 0..StepMaxQ packets when the step starts.
StepMaxQ == 1

StepSizes == {2, 3}

StepInit ==
    /\ pc = "timeStep"
    /\ Parked
    /\ simB = NoSim /\ etaB = NoEta /\ rngB = Seed0 /\ am = NoAm /\ cn = NoCn
    /\ smp = NoSmp
    /\ \E n \in StepSizes :
       \E Q0 \in [1..n -> 0..StepMaxQ], inj \in [1..(n - 1) -> 0..1],
          dst \in [1..(n - 1) -> 1..n] :
       \E s0 \in {[EstimateEtaEnter(FreshSim(n, 0), n)
                      EXCEPT !.Q = Q0, !.pc = "forward"]} :
          st = [pc |-> "visit", n |-> n, s0 |-> s0, s |-> s0, inj |-> inj,
                dst |-> dst, todo |-> 1..(n - 1), order |-> <<>>]

StUnchanged ==
    UNCHANGED <<pc, g, b, e12, NDEBUG, J, alias, prob, beta, sim, eta, max_eta,
                rng, x, cands, simB, etaB, rngB, am, cn, runs, smp>>

\* Lines 111-116 for one of the vertices not yet visited.
StVisit ==
    /\ st.pc = "visit"
    /\ \E i \in st.todo :
       \E s1 \in {VisitDrawn(st.s, i, st.inj[i], st.dst[i], 0)} :
          st' = [st EXCEPT !.s = s1, !.todo = st.todo \ {i},
                           !.order = Append(st.order, i),
                           !.pc = IF st.todo = {i} THEN "merge" ELSE "visit"]
    /\ StUnchanged

\* Lines 119-122.
StMerge ==
    /\ st.pc = "merge"
    /\ st' = [st EXCEPT !.s = Merge(st.s, st.n), !.pc = "done"]
    /\ StUnchanged

StepNext == StVisit \/ StMerge

SpecStep == StepInit /\ [][StepNext]_vars

-----------------------------------------------------------------------------
(* The claims *)

\* eta[i] <= 0.75*(1 - e1 - e2) for every vertex i
WithinBound(et, e) ==
    \A i \in 1..Len(et.num) : 40 * et.num[i] <= 3 * (10 - e[1] - e[2]) * et.den

\* solve holds the result of computeEtaAtStationarity
SearchReturned == pc \in {"return", "canon", "aborted", "done"}

\* C1 (Spec): when computeEtaAtStationarity returns a beta > 0 (an accepted
\* candidate), every entry of the eta it hands back is at most
\* 0.75*(1 - e1 - e2).
C1_EtaBounded == (SearchReturned /\ beta[1] > 0) => WithinBound(eta, e12)

\* C1 witness: a beta is accepted after at least one candidate was rejected,
\* with some queue seen non-empty.
C1_Witness ==
    /\ pc = "canon" /\ beta[1] > 0 /\ Len(cands) >= 2
    /\ \E i \in 1..g.n : eta.num[i] > 0

\* 1.28 / 2^k
NthHalf(k) == <<32, 25 * (2^k)>>

C4_NoSolutionWithoutStableBeta == pc \in {"canon", "done"} => beta[1] > 0

\* C5 (Spec): with b[n-1] = 0 no injection rate is computed and no simulation
\* starts.
C5_ZeroReferenceRejected ==
    b[g.n] = 0 => (J = <<>> /\ sim.pc = "idle" /\ cands = <<>>)

\* The stop rule of estimateEta ended at the epoch cap with the drift
\* threshold not met.
StoppedAtCap(s) == s.epoch = MAX_EPOCHS /\ Drift(s.oldC, s.newC)

\* C10 (Spec): what estimateEta returns carries a verdict, which is "not
\* converged" exactly when the run stopped at the epoch cap.
C10_VerdictReturned ==
    (pc = "estimateEta" /\ sim.pc = "returned") =>
        LET res == EstimateEtaResult(eta)
        IN  /\ "converged" \in DOMAIN res
            /\ res.converged = ~StoppedAtCap(sim)

\* The chance, in units of 1/(n * den), that sampling the finished table a as
\* pickRandomNeighbor does returns j: column c is drawn with chance 1/n and
\* returns c with chance prob[c], alias[c] otherwise.
SampleMass(a, j) ==
    LET Keep(c) == IF a.prob[c] > a.den THEN a.den ELSE a.prob[c]
        Part(c) == (IF c = j THEN Keep(c) ELSE 0)
                   + (IF a.alias[c] = j THEN a.den - Keep(c) ELSE 0)
    IN  SumTo([c \in 1..a.n |-> Part(c)], a.n)

\* C6 (SpecAlias): for a row that sums to 1, the finished table returns each
\* outcome j with probability exactly P[j].
C6_AliasExact ==
    (am.pc = "done" /\ SumTo(am.row, am.n) = am.den) =>
        \A j \in 1..am.n : SampleMass(am, j) = am.n * am.row[j]

\* C6 witness: a finished table for a stochastic row in which a large entry
\* was paired, fell below 1 and was paired again as a small one.
C6_Witness ==
    /\ am.pc = "done" /\ SumTo(am.row, am.n) = am.den /\ am.iters >= 2
    /\ \E c \in 1..am.n :
          /\ am.alias[c] # Uninit
          /\ am.alias[am.alias[c]] # Uninit
          /\ am.prob[c] > 0 /\ am.prob[c] < am.den

\* C7 (SpecAlias): AliasMethod completes only for rows that sum to 1.
C7_BadRowRejected == am.pc = "done" => SumTo(am.row, am.n) = am.den

\* C8 (SpecDet): two estimateEta runs from the same generator state, with the
\* same tables, J and beta, over arrays with different leftovers, return the
\* same eta and leave the generator in the same state.
C8_SameSeedSameEta ==
    (pc = "twoRuns" /\ sim.pc = "returned" /\ simB.pc = "returned") =>
        (eta = etaB /\ rng = rngB)

\* C8 witness: both runs are over, their arrays started with different
\* contents, and packets were forwarded.
C8_Witness ==
    /\ pc = "twoRuns" /\ sim.pc = "returned" /\ simB.pc = "returned"
    /\ \E i \in 1..g.n : eta.num[i] > 0
    /\ \E i \in 1..g.n : sim.Q[i] > 0
    /\ rng \notin Seeds

\* C9 (SpecCanon): for beta > 0 and d > 0 the x of computeCanonicalSolution is
\* v[i] - mean(v) with v[i] = (-b[n-1]/beta) * (eta[i]/d[i]): its entries sum
\* to 0 and its differences are those of v.
C9_Centered ==
    cn.pc = "done" =>
        /\ \A i \in 1..cn.n :
              cn.v.num[i] * cn.beta[1] * cn.eta.den * cn.d[i]
                 = (0 - cn.b[cn.n]) * cn.beta[2] * cn.eta.num[i] * cn.v.den
        /\ \A i \in 1..cn.n :
              cn.x.num[i] * cn.n * cn.v.den
                 = (cn.n * cn.v.num[i] - SumTo(cn.v.num, cn.n)) * cn.x.den
        /\ SumTo(cn.x.num, cn.n) = 0
        /\ \A i, j \in 1..cn.n :
              (cn.x.num[i] - cn.x.num[j]) * cn.v.den
                 = (cn.v.num[i] - cn.v.num[j]) * cn.x.den

\* C9 witness: a centred solution whose entries are not all equal.
C9_Witness ==
    /\ cn.pc = "done" /\ cn.n = 3
    /\ cn.x.num[1] # cn.x.num[2] /\ cn.x.num[2] # cn.x.num[3]
    /\ SumTo(cn.v.num, cn.n) # 0

\* C11 (SpecSampler): every random_double() is below 1, and the column drawn
\* by pickRandomNeighbor is one of the n columns of the table.
C11_SamplerInRange ==
    /\ smp.pc \in {"pick", "done"} => smp.dv[5] = 0
    /\ smp.pc = "done" => smp.out.col \in 1..smp.n

\* The step of lines 110-122 as the code takes it, vertices in index order.
StepInCodeOrder(s0, n, inj, dst) == Merge(VisitDrawnTo(s0, n - 1, inj, dst), n)

\* The number of vertices that sent a packet to j in the step recorded in h
Arrivals(h, n, j) == Cardinality({i \in 1..n : h.dep[i] = 1 /\ h.dst[i] = j})

\* C12 (SpecStep): vertex i decides on the Q[i] of the end of the previous
\* step plus its own injection draw; until the merge Q[i] holds none of the
\* step's arrivals, which wait in inQ; and after the merge Q, inQ and cnt are
\* what the code's index order gives for the same draws, whatever order the
\* vertices were taken in.
C12_TwoPhase ==
    /\ st.pc \in {"merge", "done"} =>
          \A i \in 1..(st.n - 1) :
             st.s.h.dep[i] = IF st.s0.Q[i] + st.inj[i] > 0 THEN 1 ELSE 0
    /\ st.pc = "merge" =>
          /\ \A i \in 1..(st.n - 1) :
                st.s.Q[i] = st.s0.Q[i] + st.inj[i] - st.s.h.dep[i]
          /\ st.s.Q[st.n] = st.s0.Q[st.n]
          /\ \A j \in 1..st.n : st.s.inQ[j] = Arrivals(st.s.h, st.n, j)
    /\ st.pc = "done" =>
          \E ref \in {StepInCodeOrder(st.s0, st.n, st.inj, st.dst)} :
             /\ st.s.Q = ref.Q /\ st.s.inQ = ref.inQ /\ st.s.cnt = ref.cnt
             /\ \A j \in 1..st.n : st.s.inQ[j] = 0

\* C12 witness: vertex 2 was taken before vertex 1 and sent a packet to
\* vertex 1, whose queue was empty and stayed so until the merge.
C12_Witness ==
    /\ st.pc = "done" /\ st.n = 3 /\ st.order = <<2, 1>>
    /\ st.s.h.dep[2] = 1 /\ st.dst[2] = 1
    /\ st.s0.Q[1] = 0 /\ st.inj[1] = 0 /\ st.s.h.dep[1] = 0
    /\ st.s.Q[1] >= 1

\* An estimateEta call has cleared its arrays and has not been left behind.
Running(s) ==
    s.pc \in {"epoch", "forward", "merge", "epochEnd", "finish", "returned"}

\* C13 (Spec): during an estimateEta call cnt[i] never exceeds the number of
\* steps simulated so far, and when the call returns every eta[i] is in
\* [0, 1] and eta[n - 1] = 0.
C13_EtaInUnitRange ==
    /\ Running(sim) =>
          \A i \in 1..g.n : sim.cnt[i] >= 0 /\ sim.cnt[i] <= sim.h.steps
    /\ sim.pc = "returned" =>
          /\ \A i \in 1..g.n : eta.num[i] >= 0 /\ eta.num[i] <= eta.den
          /\ eta.den > 0
          /\ eta.num[g.n] = 0

\* C13 witness: a call of two or more epochs returns with a vertex that was
\* busy in every step, eta = 1, and another that was not.
C13_Witness ==
    /\ sim.pc = "returned" /\ sim.epoch >= 2
    /\ \E i \in 1..g.n : eta.num[i] = eta.den
    /\ \E i \in 1..(g.n - 1) : eta.num[i] < eta.den

\* C14 (Spec): the eta[i] a call returns for a non-sink vertex i is the number
\* of steps in which Q[i] > 0 held right after the injection draw, over the
\* number of steps the call simulated, which is epochs * LENGTH_OF_EPOCH.
C14_EtaIsBusyFraction ==
    sim.pc = "returned" =>
        /\ sim.h.steps = sim.epoch * LENGTH_OF_EPOCH
        /\ \A i \in 1..(g.n - 1) :
              eta.num[i] * sim.h.steps = sim.h.busy[i] * eta.den

\* C14 witness: a call of two or more epochs in which a vertex was busy in
\* some steps and idle in others.
C14_Witness ==
    /\ sim.pc = "returned" /\ sim.epoch >= 2
    /\ \E i \in 1..(g.n - 1) :
          sim.h.busy[i] > 0 /\ sim.h.busy[i] < sim.h.steps

\* C15 (Spec): an estimateEta call leaves its do-while only at the epoch
\* cap, or after two or more simulated epochs whose statistics differ by no
\* more than the threshold.
C15_StopsOnTwoEpochs ==
    sim.pc \in {"finish", "returned"} =>
        \/ sim.epoch = MAX_EPOCHS
        \/ sim.epoch >= 2 /\ ~Drift(sim.oldC, sim.newC)

\* C16 (SpecFair): an estimateEta call never runs more than MAX_EPOCHS
\* epochs; every call that is entered returns; and when it returns it has run
\* between 1 and MAX_EPOCHS epochs of LENGTH_OF_EPOCH steps and *eta holds
\* the estimate of those steps, also when it stopped at the epoch cap.
C16_SimulatorTerminates ==
    /\ [](Running(sim) => sim.epoch <= MAX_EPOCHS)
    /\ [](sim.pc = "returned" =>
            /\ sim.epoch >= 1 /\ sim.epoch <= MAX_EPOCHS
            /\ sim.h.steps = sim.epoch * LENGTH_OF_EPOCH
            /\ eta = EtaOf(sim, g.n))
    /\ (sim.pc = "enter") ~> (sim.pc = "returned")

\* C16 witness: a call returns from the epoch cap, the drift still above the
\* threshold, with an estimate that is not all zero.
C16_Witness ==
    /\ sim.pc = "returned" /\ sim.epoch = MAX_EPOCHS
    /\ Drift(sim.oldC, sim.newC)
    /\ \E i \in 1..g.n : eta.num[i] > 0

\* What one pass over the vertices (lines 110-117) does, from the state s
\* before it to the state s2 after it: each non-sink vertex forwards one
\* packet if its queue is non-empty after its injection draw and none
\* otherwise, the sink neither injects nor forwards, and the inboxes receive
\* exactly the packets forwarded.
DepartureRule(s, s2, n) ==
    /\ \A i \in 1..(n - 1) :
          /\ s2.h.inj[i] \in {0, 1}
          /\ s2.h.dep[i] = IF s.Q[i] + s2.h.inj[i] > 0 THEN 1 ELSE 0
          /\ s2.Q[i] = s.Q[i] + s2.h.inj[i] - s2.h.dep[i]
          /\ s2.cnt[i] = s.cnt[i] + s2.h.dep[i]
    /\ s2.h.inj[n] = 0 /\ s2.h.dep[n] = 0
    /\ s2.Q[n] = s.Q[n] /\ s2.cnt[n] = s.cnt[n]
    /\ \A j \in 1..n : s2.inQ[j] = s.inQ[j] + Arrivals(s2.h, n, j)

\* C17 (Spec): every pass over the vertices follows the departure rule, and
\* in every state of a call Q[i] >= 0 and inQ[i] >= 0 for all i.
C17_DepartureRule ==
    [][/\ (sim.pc = "forward" /\ sim'.pc = "merge") =>
             DepartureRule(sim, sim', g.n)
       /\ Running(sim') =>
             \A i \in 1..g.n : sim'.Q[i] >= 0 /\ sim'.inQ[i] >= 0]_vars

\* C17 witness: after a pass over three vertices, one vertex has forwarded a
\* packet and kept another, and one had nothing to forward.
C17_Witness ==
    /\ sim.pc = "merge" /\ g.n = 3
    /\ \E i, j \in 1..2 :
          /\ sim.h.dep[i] = 1 /\ sim.Q[i] >= 1
          /\ sim.h.dep[j] = 0 /\ sim.h.inj[j] = 0

\* The states of a call between two time steps.
AtStepBoundary(s) ==
    s.pc \in {"epoch", "forward", "epochEnd", "finish", "returned"}

\* C18 (Spec): between two time steps of a call all inboxes are zero and the
\* queues hold together exactly the packets injected since the call began;
\* and the sink's queue never decreases during a call.
C18_PacketsConserved ==
    [][/\ AtStepBoundary(sim') =>
             /\ \A i \in 1..g.n : sim'.inQ[i] = 0
             /\ sum(sim'.Q) = sim'.h.injected
       /\ (Running(sim) /\ Running(sim')) => sim'.Q[g.n] >= sim.Q[g.n]]_vars

\* C18 witness: between two steps, packets wait both at the sink and at
\* another vertex.
C18_Witness ==
    /\ AtStepBoundary(sim) /\ sim.h.injected >= 3
    /\ sim.Q[g.n] >= 1
    /\ \E i \in 1..(g.n - 1) : sim.Q[i] >= 1

\* The last estimateEta call that returned
LastRun == runs[Len(runs)]

\* C19 (Spec): once the search has returned, beta and eta are those of the
\* last estimateEta call, which simulated the last candidate; and x is
\* written only by the one computeCanonicalSolution call solve makes after
\* that, from exactly this pair.
C19_EtaAndBetaJoint ==
    [][/\ pc' \in {"return", "canon", "done"} =>
             /\ runs' # <<>> /\ Len(runs') = Len(cands')
             /\ beta' = runs'[Len(runs')].beta
             /\ beta' = cands'[Len(cands')]
             /\ eta' = runs'[Len(runs')].eta
       /\ x' # x =>
             /\ pc = "canon" /\ pc' = "done"
             /\ x' = computeCanonicalSolution(g.n, b, LastRun.eta,
                                              LastRun.beta, g.d)]_vars

\* C19 witness: the solution was computed after a search that simulated
\* three or more candidates whose estimates were not all the same.
C19_Witness ==
    /\ pc = "done" /\ x.finite /\ Len(runs) >= 3
    /\ runs[Len(runs) - 1].eta # LastRun.eta
    /\ \E i \in 1..g.n : eta.num[i] > 0

\* C20 (SpecAlias): the pairing loop runs at most n times; neither worklist
\* ever holds more than n indices; once every index is classified, each index
\* is in a worklist or has had its prob assigned, never both, so every
\* iteration takes one index out of the worklists for good; and on return
\* every prob[c] has been assigned exactly once.
C20_AliasBounded ==
    /\ am.iters <= am.n
    /\ Len(am.small) <= am.n /\ Len(am.large) <= am.n
    /\ am.pc # "classify" =>
          /\ Len(am.small) + Len(am.large) + SumTo(am.writes, am.n) = am.n
          /\ am.iters <= SumTo(am.writes, am.n)
          /\ \A c \in 1..am.n : am.writes[c] <= 1
    /\ am.pc = "done" =>
          \A c \in 1..am.n : am.writes[c] = 1 /\ am.prob[c] # Uninit

\* C20 witness: a row of three entries that took two pairing iterations and
\* left an index for the loops of lines 164-165.
C20_Witness ==
    /\ am.pc = "done" /\ am.n = 3 /\ am.iters = 2
    /\ \E c \in 1..am.n : am.alias[c] = Uninit /\ am.prob[c] = am.den

====
